---- MODULE Spec2Model ----
(***************************************************************************)
(* Model of the Dexcom share client of src/dexcom.go: the lazily run login *)
(* handshake, the data call, and the decoding of the vendor's              *)
(* Date(<epoch-millis>) time format.                                       *)
(*                                                                         *)
(* Go strings that the code parses or formats are sequences of one-        *)
(* character strings; opaque strings (tokens, endpoint names) are TLA+     *)
(* strings.  A Go pointer is <<>> (nil) or <<v>> (a pointer to v).         *)
(***************************************************************************)
EXTENDS Integers, Sequences, FiniteSets, TLC

VARIABLES d, last, nCalls, firstOk, wt, wtN, ts, pc, loc, nLogin, overwritten

vars == <<d, last, nCalls, firstOk, wt, wtN, ts, pc, loc, nLogin, overwritten>>

clientVars == <<d, last, nCalls, firstOk>>

convVars == <<wt, wtN, ts>>

concVars == <<pc, loc, nLogin, overwritten>>

-----------------------------------------------------------------------------
(* Bounds *)

\* Width in bits of Go's int in the model (64 in the build; scaled down so
\* that the range check of strconv.Atoi is exercised).
IntBits == 12

\* Longest raw array the vendor returns in the model.
MaxRaw == 2

\* Number of GetReadings calls made on the instance.
MaxCalls == 3

\* Longest digit run of the hand-made timestamp inputs.
MaxDigits == 2

-----------------------------------------------------------------------------
(* Pointers *)

Nil == <<>>

Ptr(v) == <<v>>

Deref(p) == p[1]

-----------------------------------------------------------------------------
(* Program constants *)

dexcomLoginEndpoint == "General/LoginPublisherAccountById"

dexcomAuthEndpoint == "General/AuthenticatePublisherAccount"

dexcomGetLatestEndpoint == "Publisher/ReadPublisherLatestGlucoseValues"

dexcomApplicationId == "d89443d2-327c-4a6f-89e5-496bbb0317db"

-----------------------------------------------------------------------------
(* Errors and times *)

NoErr == [type |-> "nil", msg |-> <<>>]

\* http.Post or io.ReadAll failed.
TransportErr == [type |-> "transport", msg |-> <<>>]

\* json.Unmarshal rejected the body for the target's type.
DecodeErr == [type |-> "decode", msg |-> <<>>]

\* fmt.Errorf(prefix + "%s", arg)
ErrorfNoArg(prefix, arg) == [type |-> "parse", msg |-> prefix]

Errorf(prefix, arg) == [type |-> "parse", msg |-> prefix \o arg]

\* time.Time{}
ZeroTime == [isZero |-> TRUE, sec |-> 0, nsec |-> 0]

\* time.UnixMilli(msec) = time.Unix(msec/1e3, (msec%1e3)*1e6)
UnixMilliSeconds(msec) == [isZero |-> FALSE, sec |-> msec, nsec |-> 0]

UnixMilli(msec) ==
  [isZero |-> FALSE, sec |-> msec \div 1000, nsec |-> (msec % 1000) * 1000000]

-----------------------------------------------------------------------------
(* Timestamp decoding *)

Digits == {"0", "1", "2", "3", "4", "5", "6", "7", "8", "9"}

DigitVal(c) ==
  CASE c = "0" -> 0 [] c = "1" -> 1 [] c = "2" -> 2 [] c = "3" -> 3
    [] c = "4" -> 4 [] c = "5" -> 5 [] c = "6" -> 6 [] c = "7" -> 7
    [] c = "8" -> 8 [] c = "9" -> 9

DigitChar(n) ==
  CASE n = 0 -> "0" [] n = 1 -> "1" [] n = 2 -> "2" [] n = 3 -> "3"
    [] n = 4 -> "4" [] n = 5 -> "5" [] n = 6 -> "6" [] n = 7 -> "7"
    [] n = 8 -> "8" [] n = 9 -> "9"

\* Largest value of Go's int.
MaxInt == 2^(IntBits - 1) - 1

\* The literal part of timestampRegex before the capture group.
DatePrefix == <<"D", "a", "t", "e", "(">>

RECURSIVE DigitRunEnd(_, _)
\* Index of the first character at or after i that is not a digit: the end of
\* the greedy \d* started at i.
DigitRunEnd(s, i) ==
  IF i <= Len(s) /\ s[i] \in Digits THEN DigitRunEnd(s, i + 1) ELSE i

\* timestampRegex matches with its first character at index i.
MatchAt(s, i) ==
  /\ i + 4 <= Len(s)
  /\ SubSeq(s, i, i + 4) = DatePrefix
  /\ LET j == DigitRunEnd(s, i + 5) IN j <= Len(s) /\ s[j] = ")"

\* timestampRegex.FindStringSubmatch(s): the leftmost match and its capture
\* group, or nil.
FindStringSubmatchAnchored(s) ==
  IF MatchAt(s, 1) /\ DigitRunEnd(s, 6) = Len(s)
  THEN <<s, SubSeq(s, 6, Len(s) - 1)>>
  ELSE <<>>

FindStringSubmatch(s) ==
  IF \E i \in 1..Len(s) : MatchAt(s, i)
  THEN LET i == CHOOSE k \in 1..Len(s) :
                  MatchAt(s, k) /\ \A m \in 1..(k - 1) : ~MatchAt(s, m)
           j == DigitRunEnd(s, i + 5)
       IN  <<SubSeq(s, i, j), SubSeq(s, i + 5, j - 1)>>
  ELSE <<>>

RECURSIVE AtoiFrom(_, _, _)
\* The digit loop of strconv.Atoi: n is the value of the digits before i.
AtoiFrom(s, i, n) ==
  IF i > Len(s) THEN [n |-> n, ok |-> TRUE]
  ELSE IF s[i] \notin Digits THEN [n |-> 0, ok |-> FALSE]
  ELSE LET n1 == n * 10 + DigitVal(s[i])
       IN  IF n1 > MaxInt THEN [n |-> MaxInt, ok |-> FALSE]
           ELSE AtoiFrom(s, i + 1, n1)

\* strconv.Atoi(s) on a string without sign: a value, or a syntax error (empty
\* string, non-digit) or a range error.
AtoiEmptyZero(s) == AtoiFrom(s, 1, 0)

Atoi(s) == IF Len(s) = 0 THEN [n |-> 0, ok |-> FALSE] ELSE AtoiFrom(s, 1, 0)

FailedToParse ==
  <<"f", "a", "i", "l", "e", "d", " ", "t", "o", " ", "p", "a", "r", "s", "e",
    " ", "t", "i", "m", "e", "s", "t", "a", "m", "p", ":", " ">>

InvalidTimestamp ==
  <<"i", "n", "v", "a", "l", "i", "d", " ", "t", "i", "m", "e", "s", "t", "a",
    "m", "p", ":", " ">>

convertTimestamp(w) ==
  LET matches == FindStringSubmatch(w)
  IN  IF Len(matches) # 2
      THEN [t |-> ZeroTime, err |-> Errorf(FailedToParse, w)]
      ELSE LET a == Atoi(matches[2])
           IN  IF ~a.ok
               THEN [t |-> ZeroTime, err |-> Errorf(InvalidTimestamp, matches[2])]
               ELSE [t |-> UnixMilli(a.n), err |-> NoErr]

RECURSIVE Itoa(_)
\* The base-10 numeral of a natural number.
Itoa(n) == IF n < 10 THEN <<DigitChar(n)>> ELSE Itoa(n \div 10) \o <<DigitChar(n % 10)>>

\* The vendor's wire form of the instant n milliseconds after the epoch.
EncodeWT(n) == DatePrefix \o Itoa(n) \o <<")">>

-----------------------------------------------------------------------------
(* The vendor, as a stub transport sees it *)

Usernames == {"alice", "bob"}

Passwords == {"hunter2"}

AccountTokens == {"acctA", "acctB"}

SessionTokens == {"sessA", "sessB"}

MinutesArgs == {1440}

CountArgs == {1, 3}

\* Wire times of the raw records: two that decode and one that does not.
GoodWireTimes == {EncodeWT(1500), EncodeWT(61)}

BadWireTime == <<"D", "a", "t", "e", "(", "a", "b", "c", ")">>

TrendValues ==
  {[Trend |-> "Flat", Value |-> 120], [Trend |-> "FortyFiveUp", Value |-> 95]}

\* RawReading
RawReading ==
  {[Time |-> w, Trend |-> tv.Trend, Value |-> tv.Value] :
     w \in GoodWireTimes, tv \in TrendValues}
    \cup {[Time |-> BadWireTime, Trend |-> "Flat", Value |-> 120]}

RECURSIVE SeqsUpTo(_, _)
\* The sequences over S of length at most n.
SeqsUpTo(S, n) ==
  IF n = 0 THEN {<<>>}
  ELSE LET shorter == SeqsUpTo(S, n - 1)
       IN  shorter \cup {Append(q, x) : q \in shorter, x \in S}

\* What one POST can come back with: a failed exchange, or a body that is a
\* JSON string, array of records, object (the vendor's error payload) or null.
Resp(kind, str, arr) == [kind |-> kind, str |-> str, arr |-> arr]

NetFail == Resp("neterr", "", <<>>)

JObject == Resp("object", "", <<>>)

JNull == Resp("null", "", <<>>)

JString(t) == Resp("string", t, <<>>)

JArray(a) == Resp("array", "", a)

AccountResponses == {NetFail, JObject, JNull} \cup {JString(t) : t \in AccountTokens}

SessionResponses == {NetFail, JObject, JNull} \cup {JString(t) : t \in SessionTokens}

DataResponses ==
  {NetFail, JObject, JNull, JString("sessA")}
    \cup {JArray(a) : a \in SeqsUpTo(RawReading, MaxRaw)}

-----------------------------------------------------------------------------
(* The client *)

\* func New(username string, password string) Dexcom
NewWithSession(username, password) ==
  [username |-> username, password |-> password,
   accountId |-> Nil, sessionId |-> Ptr("")]

New(username, password) ==
  [username |-> username, password |-> password,
   accountId |-> Nil, sessionId |-> Nil]

\* json.Unmarshal(body, result) for result a *string ("string") or a
\* *[]RawReading ("array"); val is what result points to afterwards.  A JSON
\* null is accepted and leaves the target at its zero value.
Unmarshal(resp, typ) ==
  IF typ = "string"
  THEN CASE resp.kind = "string" -> [err |-> NoErr, val |-> resp.str]
         [] resp.kind = "null" -> [err |-> NoErr, val |-> ""]
         [] OTHER -> [err |-> DecodeErr, val |-> ""]
  ELSE CASE resp.kind = "array" -> [err |-> NoErr, val |-> resp.arr]
         [] resp.kind = "null" -> [err |-> NoErr, val |-> <<>>]
         [] OTHER -> [err |-> DecodeErr, val |-> <<>>]

\* func request(endPoint string, payload any, result interface{}) error
\* resp is what the vendor answers; call is what the transport saw.
request(endPoint, payload, typ, resp) ==
  LET call == [endPoint |-> endPoint, payload |-> payload, resp |-> resp]
  IN  IF resp.kind = "neterr"
      THEN [err |-> TransportErr, val |-> IF typ = "string" THEN "" ELSE <<>>,
            call |-> call]
      ELSE LET u == Unmarshal(resp, typ)
           IN  [err |-> u.err, val |-> u.val, call |-> call]

VerifyPayload(accountName, password, applicationId) ==
  [type |-> "VerifyPayload", accountName |-> accountName,
   password |-> password, applicationId |-> applicationId]

AuthPayload(accountId, password, applicationId) ==
  [type |-> "AuthPayload", accountId |-> accountId,
   password |-> password, applicationId |-> applicationId]

GetReadingsPayload(sessionId, minutes, maxCount) ==
  [type |-> "GetReadingsPayload", sessionId |-> sessionId,
   minutes |-> minutes, maxCount |-> maxCount]

\* A step of GetReadings: the instance afterwards, the calls issued, the
\* error returned, and whether the step panicked on a nil pointer.
Step(dd, calls, err, panic) ==
  [d |-> dd, calls |-> calls, err |-> err, panic |-> panic]

\* func (d *Dexcom) fetchAccountId() error
fetchAccountIdAtLogin(dd, resp) ==
  LET payload == VerifyPayload(dd.username, dd.password, dexcomApplicationId)
      r == request(dexcomLoginEndpoint, payload, "string", resp)
  IN  IF r.err # NoErr
      THEN Step(dd, <<r.call>>, r.err, FALSE)
      ELSE Step([dd EXCEPT !.accountId = Ptr(r.val)], <<r.call>>, NoErr, FALSE)

fetchAccountId(dd, resp) ==
  LET payload == VerifyPayload(dd.username, dd.password, dexcomApplicationId)
      r == request(dexcomAuthEndpoint, payload, "string", resp)
  IN  IF r.err # NoErr
      THEN Step(dd, <<r.call>>, r.err, FALSE)
      ELSE Step([dd EXCEPT !.accountId = Ptr(r.val)], <<r.call>>, NoErr, FALSE)

\* func (d *Dexcom) auth() error
\* *d.accountId panics when the account id is nil, before any request.
authNoStore(dd, resp) ==
  IF dd.accountId = Nil
  THEN Step(dd, <<>>, NoErr, TRUE)
  ELSE LET payload == AuthPayload(Deref(dd.accountId), dd.password, dexcomApplicationId)
           r == request(dexcomLoginEndpoint, payload, "string", resp)
       IN  Step(dd, <<r.call>>, r.err, FALSE)

authStoreIfUnset(dd, resp) ==
  IF dd.accountId = Nil
  THEN Step(dd, <<>>, NoErr, TRUE)
  ELSE LET payload == AuthPayload(Deref(dd.accountId), dd.password, dexcomApplicationId)
           r == request(dexcomLoginEndpoint, payload, "string", resp)
       IN  IF r.err # NoErr \/ dd.sessionId # Nil
           THEN Step(dd, <<r.call>>, r.err, FALSE)
           ELSE Step([dd EXCEPT !.sessionId = Ptr(r.val)], <<r.call>>, NoErr, FALSE)

authStoresOnError(dd, resp) ==
  IF dd.accountId = Nil
  THEN Step(dd, <<>>, NoErr, TRUE)
  ELSE LET payload == AuthPayload(Deref(dd.accountId), dd.password, dexcomApplicationId)
           r == request(dexcomLoginEndpoint, payload, "string", resp)
       IN  Step([dd EXCEPT !.sessionId = Ptr(r.val)], <<r.call>>, r.err, FALSE)

authUnchecked(dd, resp) ==
  LET payload == AuthPayload(IF dd.accountId = Nil THEN "" ELSE Deref(dd.accountId),
                             dd.password, dexcomApplicationId)
      r == request(dexcomLoginEndpoint, payload, "string", resp)
  IN  IF r.err # NoErr
      THEN Step(dd, <<r.call>>, r.err, FALSE)
      ELSE Step([dd EXCEPT !.sessionId = Ptr(r.val)], <<r.call>>, NoErr, FALSE)

auth(dd, resp) ==
  IF dd.accountId = Nil
  THEN Step(dd, <<>>, NoErr, TRUE)
  ELSE LET payload == AuthPayload(Deref(dd.accountId), dd.password, dexcomApplicationId)
           r == request(dexcomLoginEndpoint, payload, "string", resp)
       IN  IF r.err # NoErr
           THEN Step(dd, <<r.call>>, r.err, FALSE)
           ELSE Step([dd EXCEPT !.sessionId = Ptr(r.val)], <<r.call>>, NoErr, FALSE)

\* GlucoseReading
GlucoseReading(time, value, trend) == [Time |-> time, Value |-> value, Trend |-> trend]

RECURSIVE convertLoop(_, _, _)
RECURSIVE convertLoopPrepend(_, _, _)
RECURSIVE convertLoopNoEmpty(_, _, _)
RECURSIVE convertLoopSkipBad(_, _, _)
\* The for loop of GetReadings over rawValues[i..], readings so far in acc.
convertLoopPrepend(rawValues, i, acc) ==
  IF i > Len(rawValues) THEN [readings |-> acc, err |-> NoErr]
  ELSE LET rv == rawValues[i]
           c == convertTimestamp(rv.Time)
       IN  IF c.err # NoErr
           THEN [readings |-> <<>>, err |-> c.err]
           ELSE convertLoopPrepend(rawValues, i + 1,
                                   <<GlucoseReading(c.t, rv.Value, rv.Trend)>> \o acc)

convertLoopSkipBad(rawValues, i, acc) ==
  IF i > Len(rawValues) THEN [readings |-> acc, err |-> NoErr]
  ELSE LET rv == rawValues[i]
           c == convertTimestamp(rv.Time)
       IN  IF c.err # NoErr
           THEN convertLoopSkipBad(rawValues, i + 1, acc)
           ELSE convertLoopSkipBad(rawValues, i + 1,
                                   Append(acc, GlucoseReading(c.t, rv.Value, rv.Trend)))

convertLoopNoEmpty(rawValues, i, acc) ==
  IF Len(rawValues) = 0 THEN [readings |-> <<>>, err |-> DecodeErr]
  ELSE IF i > Len(rawValues) THEN [readings |-> acc, err |-> NoErr]
  ELSE LET rv == rawValues[i]
           c == convertTimestamp(rv.Time)
       IN  IF c.err # NoErr
           THEN [readings |-> <<>>, err |-> c.err]
           ELSE convertLoopNoEmpty(rawValues, i + 1,
                                   Append(acc, GlucoseReading(c.t, rv.Value, rv.Trend)))

convertLoop(rawValues, i, acc) ==
  IF i > Len(rawValues) THEN [readings |-> acc, err |-> NoErr]
  ELSE LET rv == rawValues[i]
           c == convertTimestamp(rv.Time)
       IN  IF c.err # NoErr
           THEN [readings |-> <<>>, err |-> c.err]
           ELSE convertLoop(rawValues, i + 1,
                            Append(acc, GlucoseReading(c.t, rv.Value, rv.Trend)))

\* if d.sessionId == nil
sessionUnsetAlways(dd) == TRUE

sessionUnset(dd) == dd.sessionId = Nil

\* if d.accountId == nil
accountUnsetAlways(dd) == TRUE

accountUnset(dd) == dd.accountId = Nil

\* What a GetReadings call gives its caller: kind "ok" (readings, nil),
\* "err" (nil, err) or "panic" (no return: a nil pointer was dereferenced).
Result(kind, readings, err) == [kind |-> kind, readings |-> readings, err |-> err]

\* GetReadings from the payload on (lines 125-148), with sessionId the value
\* read from *d.sessionId: the data call and the decoding of its answer.
fetchReadings(sessionId, minutes, numReadings, rD) ==
  LET payload == GetReadingsPayload(sessionId, minutes, numReadings)
      r == request(dexcomGetLatestEndpoint, payload, "array", rD)
  IN  IF r.err # NoErr
      THEN [call |-> r.call, result |-> Result("err", <<>>, r.err)]
      ELSE LET c == convertLoop(r.val, 1, <<>>)
           IN  IF c.err # NoErr
               THEN [call |-> r.call, result |-> Result("err", <<>>, c.err)]
               ELSE [call |-> r.call, result |-> Result("ok", c.readings, NoErr)]

\* func (d *Dexcom) GetReadings(minutes int, numReadings int) ([]GlucoseReading, error)
\* rA, rS and rD are the vendor's answers to the account-id, session and
\* data call, should the call be issued.
GetReadings(dd, minutes, numReadings, rA, rS, rD) ==
  LET s1 == IF sessionUnset(dd) /\ accountUnset(dd)
            THEN fetchAccountId(dd, rA)
            ELSE Step(dd, <<>>, NoErr, FALSE)
      s2 == IF sessionUnset(dd)
            THEN auth(s1.d, rS)
            ELSE Step(s1.d, <<>>, NoErr, FALSE)
      login == s1.calls \o s2.calls
  IN  IF s2.panic \/ s2.d.sessionId = Nil
      THEN [d |-> s2.d, calls |-> login, result |-> Result("panic", <<>>, NoErr)]
      ELSE LET f == fetchReadings(Deref(s2.d.sessionId), minutes, numReadings, rD)
           IN  [d |-> s2.d, calls |-> Append(login, f.call), result |-> f.result]

-----------------------------------------------------------------------------
(* State *)

\* last: the most recent GetReadings call as a test harness records it.
NoCall ==
  [pre |-> New("", ""), minutes |-> 0, numReadings |-> 0, calls |-> <<>>,
   result |-> Result("none", <<>>, NoErr)]

\* ts: the outcome of convertTimestamp(wt), once it has run.
NotRun == [done |-> FALSE, t |-> ZeroTime, err |-> NoErr]

\* The type request decodes the answer to a payload into.
ResultType(payload) == IF payload.type = "GetReadingsPayload" THEN "array" ELSE "string"

\* The error request returns for this call.
CallErr(call) ==
  request(call.endPoint, call.payload, ResultType(call.payload), call.resp).err

\* request returns a nil error on this answer, decoded into typ.
Accepts(resp, typ) == request("", <<>>, typ, resp).err = NoErr

\* The answers the stub holds ready for a call: none to choose between when
\* the call cannot be issued from the state GetReadings is entered in.
AnswersTo(issuable, answers) == IF issuable THEN answers ELSE {NetFail}

\* The goroutines that call GetReadings on the one instance at the same time.
Callers == {1, 2}

\* A caller's locals: whether it found the session id nil at line 119, the
\* outcome of the request it is waiting to store, the session id it read
\* for its payload, and what its call gave back.
NoStep == Step(New("", ""), <<>>, NoErr, FALSE)

IdleLocals ==
  [sawUnset |-> FALSE, step |-> NoStep, sessionId |-> "",
   result |-> Result("none", <<>>, NoErr)]

\* No concurrent call has started.
ConcIdle ==
  /\ pc = [c \in Callers |-> "idle"]
  /\ loc = [c \in Callers |-> IdleLocals]
  /\ nLogin = 0
  /\ overwritten = {}

Init ==
  /\ \E u \in Usernames, p \in Passwords : d = New(u, p)
  /\ last = NoCall
  /\ nCalls = 0
  /\ firstOk = FALSE
  /\ wt = <<>>
  /\ wtN = -1
  /\ ts = NotRun
  /\ ConcIdle

\* One (non-concurrent) call of GetReadings on the instance.
CallGetReadings ==
  /\ nCalls < MaxCalls
  /\ \E minutes \in MinutesArgs, numReadings \in CountArgs,
        rA \in AnswersTo(sessionUnset(d) /\ accountUnset(d), AccountResponses),
        rS \in AnswersTo(sessionUnset(d), SessionResponses),
        rD \in DataResponses :
       LET g == GetReadings(d, minutes, numReadings, rA, rS, rD)
       IN  /\ d' = g.d
           /\ last' = [pre |-> d, minutes |-> minutes, numReadings |-> numReadings,
                       calls |-> g.calls, result |-> g.result]
           /\ firstOk' = IF nCalls = 0
                         THEN /\ Accepts(rA, "string")
                              /\ Accepts(rS, "string")
                              /\ Accepts(rD, "array")
                         ELSE firstOk
  /\ nCalls' = nCalls + 1
  /\ UNCHANGED convVars
  /\ UNCHANGED concVars

Next == CallGetReadings

Spec == Init /\ [][Next]_vars

-----------------------------------------------------------------------------
(* convertTimestamp on its own *)

\* Largest epoch-millisecond value encoded as an input: past the range of int.
MaxMillis == 2 * MaxInt + 1

HandMadeTimes ==
  {pre \o head \o digits \o tail :
     pre \in {<<>>, <<"x">>},
     head \in {DatePrefix, <<"d", "a", "t", "e", "(">>, <<"D", "a", "t", "e">>},
     digits \in SeqsUpTo({"0", "7", "a"}, MaxDigits),
     tail \in {<<")">>, <<>>, <<")", "y">>}}
    \cup {<<"g", "a", "r", "b", "a", "g", "e">>}

InitConv ==
  /\ d = New("alice", "hunter2")
  /\ last = NoCall
  /\ nCalls = 0
  /\ firstOk = FALSE
  /\ ts = NotRun
  /\ ConcIdle
  /\ \/ \E n \in 0..MaxMillis : wt = EncodeWT(n) /\ wtN = n
     \/ wt \in HandMadeTimes /\ wtN = -1

ConvertTimestamp ==
  /\ ~ts.done
  /\ LET c == convertTimestamp(wt)
     IN  ts' = [done |-> TRUE, t |-> c.t, err |-> c.err]
  /\ UNCHANGED <<wt, wtN>>
  /\ UNCHANGED clientVars
  /\ UNCHANGED concVars

NextConv == ConvertTimestamp

SpecConv == InitConv /\ [][NextConv]_vars

-----------------------------------------------------------------------------
(* Properties *)

\* The Go types of the payloads of the calls, in the order of issue.
PayloadTypes(calls) == [i \in 1..Len(calls) |-> calls[i].payload.type]

\* The calls of the most recent GetReadings that carry a payload of this type.
CallsOfType(type) == {i \in 1..Len(last.calls) : last.calls[i].payload.type = type}

\* The raw array request hands GetReadings for this answer to the data call.
RawValues(resp) == IF resp.kind = "array" THEN resp.arr ELSE <<>>

\* C1: on a fresh client whose vendor answers all three calls successfully,
\* the first GetReadings issues the account-id call, then the session call,
\* then one data call, and caches the session id it was given; every later
\* GetReadings issues the data call alone, carrying the cached session id.
C1_HandshakeOnceThenReuse ==
  /\ (firstOk /\ nCalls = 1) =>
       /\ PayloadTypes(last.calls) = <<"VerifyPayload", "AuthPayload", "GetReadingsPayload">>
       /\ d.sessionId # Nil
       /\ last.calls[3].payload.sessionId = Deref(d.sessionId)
  /\ (firstOk /\ nCalls > 1) =>
       /\ PayloadTypes(last.calls) = <<"GetReadingsPayload">>
       /\ last.pre.sessionId # Nil
       /\ last.calls[1].payload.sessionId = Deref(last.pre.sessionId)
       /\ d.sessionId = last.pre.sessionId

C1_Witness ==
  /\ firstOk
  /\ nCalls = 2
  /\ Len(last.calls) = 1
  /\ last.calls[1].payload.sessionId = "sessB"
  /\ last.result.kind = "ok"

\* C2: when the account-id call of the first GetReadings on a fresh client
\* fails, GetReadings returns that failure as its error and issues neither
\* the session call nor the data call.
C2_AccountFailureReturned ==
  (/\ nCalls = 1
   /\ Len(last.calls) >= 1
   /\ last.calls[1].payload.type = "VerifyPayload"
   /\ CallErr(last.calls[1]) # NoErr) =>
    /\ last.result.kind = "err"
    /\ last.result.err = CallErr(last.calls[1])
    /\ Len(last.calls) = 1

\* C3: the session id is set only if the account id is; a session call is
\* issued only with the account id set (it carries that id); a data call is
\* issued only with the session id set (it carries that id).
C3_ResolutionOrder ==
  /\ d.sessionId # Nil => d.accountId # Nil
  /\ \A i \in CallsOfType("AuthPayload") :
       /\ d.accountId # Nil
       /\ last.calls[i].payload.accountId = Deref(d.accountId)
       /\ \/ last.pre.accountId # Nil
          \/ \E j \in 1..(i - 1) :
               /\ last.calls[j].payload.type = "VerifyPayload"
               /\ CallErr(last.calls[j]) = NoErr
  /\ \A i \in CallsOfType("GetReadingsPayload") :
       /\ d.sessionId # Nil
       /\ last.calls[i].payload.sessionId = Deref(d.sessionId)
       /\ \/ last.pre.sessionId # Nil
          \/ \E j \in 1..(i - 1) :
               /\ last.calls[j].payload.type = "AuthPayload"
               /\ CallErr(last.calls[j]) = NoErr

C3_Witness ==
  /\ last.pre.accountId = Nil
  /\ d.accountId # Nil
  /\ d.sessionId = Nil
  /\ PayloadTypes(last.calls) = <<"VerifyPayload", "AuthPayload">>
  /\ last.result.kind = "panic"

\* C4: a GetReadings call never changes an account id or a session id that
\* is already set, whatever the vendor answers.
C4_SetOnce ==
  [][/\ d.accountId # Nil => d'.accountId = d.accountId
     /\ d.sessionId # Nil => d'.sessionId = d.sessionId]_vars

C4_Witness ==
  /\ nCalls = 3
  /\ last.pre.accountId # Nil
  /\ last.pre.sessionId = Nil
  /\ d.sessionId # Nil
  /\ d.accountId = last.pre.accountId

\* The most recent GetReadings was entered with the session id cached and
\* its data call failed.
DataCallFailedWithSession ==
  /\ nCalls >= 1
  /\ last.pre.sessionId # Nil
  /\ Len(last.calls) >= 1
  /\ CallErr(last.calls[Len(last.calls)]) # NoErr

\* C5: with the session id cached, a failed data call makes GetReadings
\* return that error and no readings after one data call and no login call,
\* leaving account id and session id as they were; the GetReadings after it
\* again issues one data call with the same session id and no login call.
C5_DataFailureIsTerminal ==
  /\ [](DataCallFailedWithSession =>
          /\ PayloadTypes(last.calls) = <<"GetReadingsPayload">>
          /\ last.calls[1].payload.sessionId = Deref(last.pre.sessionId)
          /\ last.result = Result("err", <<>>, CallErr(last.calls[1]))
          /\ d = last.pre)
  /\ [][DataCallFailedWithSession =>
          /\ PayloadTypes(last'.calls) = <<"GetReadingsPayload">>
          /\ last'.calls[1].payload.sessionId = Deref(last.pre.sessionId)
          /\ last'.pre = last.pre]_vars

C5_Witness ==
  /\ nCalls = 3
  /\ last.pre.sessionId # Nil
  /\ PayloadTypes(last.calls) = <<"GetReadingsPayload">>
  /\ last.calls[1].resp = JObject
  /\ last.result.kind = "err"
  /\ last.result.err = DecodeErr

\* The most recent GetReadings got an array from its data call, and every
\* record's WT decodes.
DataDecodes ==
  /\ Len(last.calls) >= 1
  /\ last.calls[Len(last.calls)].payload.type = "GetReadingsPayload"
  /\ CallErr(last.calls[Len(last.calls)]) = NoErr
  /\ LET raw == RawValues(last.calls[Len(last.calls)].resp)
     IN  \A i \in 1..Len(raw) : convertTimestamp(raw[i].Time).err = NoErr

\* C6: when the data call succeeds and every WT decodes, GetReadings returns
\* as many readings as the vendor sent records, the i-th with the i-th
\* record's Value and Trend and the instant decoded from its WT.
C6_VendorOrderKept ==
  DataDecodes =>
    LET raw == RawValues(last.calls[Len(last.calls)].resp)
    IN  /\ last.result.kind = "ok"
        /\ last.result.err = NoErr
        /\ Len(last.result.readings) = Len(raw)
        /\ \A i \in 1..Len(raw) :
             /\ last.result.readings[i].Value = raw[i].Value
             /\ last.result.readings[i].Trend = raw[i].Trend
             /\ last.result.readings[i].Time = convertTimestamp(raw[i].Time).t

C6_Witness ==
  /\ DataDecodes
  /\ last.numReadings = 1
  /\ Len(last.result.readings) = 2
  /\ last.result.readings[1] = GlucoseReading(UnixMilli(61), 95, "FortyFiveUp")
  /\ last.result.readings[2] = GlucoseReading(UnixMilli(1500), 120, "Flat")

\* C7: when the data call answers with an empty array, GetReadings returns
\* an empty sequence of readings and no error.
C7_EmptyArrayIsNoError ==
  (/\ Len(last.calls) >= 1
   /\ last.calls[Len(last.calls)].payload.type = "GetReadingsPayload"
   /\ last.calls[Len(last.calls)].resp = JArray(<<>>)) =>
    last.result = Result("ok", <<>>, NoErr)

C7_Witness ==
  /\ nCalls = 1
  /\ Len(last.calls) = 3
  /\ last.calls[3].resp = JArray(<<>>)
  /\ last.result.kind = "ok"
  /\ last.result.readings = <<>>

\* C8: before the first GetReadings the instance has seen no vendor call and
\* its account id and session id are unset; the first GetReadings starts
\* from that state and issues the instance's first vendor call.
C8_NewIsLazy ==
  /\ nCalls = 0 =>
       /\ last.calls = <<>>
       /\ d.accountId = Nil
       /\ d.sessionId = Nil
       /\ \E u \in Usernames, p \in Passwords :
            d.username = u /\ d.password = p
  /\ nCalls = 1 =>
       /\ last.pre.accountId = Nil
       /\ last.pre.sessionId = Nil
       /\ Len(last.calls) >= 1
       /\ last.calls[1].payload.type = "VerifyPayload"

C8_Witness ==
  /\ nCalls = 0
  /\ d = [username |-> "bob", password |-> "hunter2", accountId |-> <<>>,
          sessionId |-> <<>>]

\* The payloads of the calls of the most recent GetReadings have the fields
\* of their step, filled from the instance.
PayloadsWellFormed ==
  \A i \in 1..Len(last.calls) :
    LET payload == last.calls[i].payload
    IN  CASE payload.type = "VerifyPayload" ->
               /\ DOMAIN payload = {"type", "accountName", "password", "applicationId"}
               /\ payload.accountName = d.username
               /\ payload.password = d.password
               /\ payload.applicationId = "d89443d2-327c-4a6f-89e5-496bbb0317db"
          [] payload.type = "AuthPayload" ->
               /\ DOMAIN payload = {"type", "accountId", "password", "applicationId"}
               /\ payload.accountId = Deref(d.accountId)
               /\ payload.password = d.password
               /\ payload.applicationId = "d89443d2-327c-4a6f-89e5-496bbb0317db"
          [] payload.type = "GetReadingsPayload" ->
               /\ DOMAIN payload = {"type", "sessionId", "minutes", "maxCount"}
               /\ payload.sessionId = Deref(d.sessionId)
               /\ payload.minutes = last.minutes
               /\ payload.maxCount = last.numReadings

\* Every call of the most recent GetReadings went to the endpoint given for
\* its step.
EndpointsAre(accountEndpoint, sessionEndpoint, dataEndpoint) ==
  \A i \in 1..Len(last.calls) :
    LET call == last.calls[i]
    IN  CASE call.payload.type = "VerifyPayload" -> call.endPoint = accountEndpoint
          [] call.payload.type = "AuthPayload" -> call.endPoint = sessionEndpoint
          [] call.payload.type = "GetReadingsPayload" -> call.endPoint = dataEndpoint

MillisOf(t) == t.sec * 1000 + t.nsec \div 1000000

\* C10: for every epoch-millisecond value n from 0 to the largest int,
\* convertTimestamp of Date(<n in base 10>) succeeds and returns the instant
\* exactly n milliseconds after the Unix epoch.
C10_TimestampRoundTrip ==
  (ts.done /\ wtN >= 0 /\ wtN <= MaxInt) =>
    /\ ts.err = NoErr
    /\ ~ts.t.isZero
    /\ ts.t.nsec \in 0..999999999
    /\ ts.t.nsec % 1000000 = 0
    /\ MillisOf(ts.t) = wtN

C10_Witness ==
  /\ ts.done
  /\ wt = <<"D", "a", "t", "e", "(", "1", "9", "9", "9", ")">>
  /\ wtN = 1999
  /\ ts.err = NoErr
  /\ ts.t = [isZero |-> FALSE, sec |-> 1, nsec |-> 999000000]

-----------------------------------------------------------------------------
(* Properties of convertTimestamp on arbitrary strings *)

\* s holds the wrapper Date(<digits>) from index i to its closing parenthesis
\* at index k.
WrapperAt(s, i, k) ==
  /\ i >= 1
  /\ i + 5 <= k
  /\ k <= Len(s)
  /\ SubSeq(s, i, i + 4) = <<"D", "a", "t", "e", "(">>
  /\ s[k] = ")"
  /\ \A m \in (i + 5)..(k - 1) : s[m] \in Digits

\* s holds the wrapper somewhere.
HasWrapper(s) == \E i \in 1..Len(s), k \in 1..Len(s) : WrapperAt(s, i, k)

\* sub occurs in s as a contiguous run.
Contains(s, sub) ==
  \E i \in 0..(Len(s) - Len(sub)) : SubSeq(s, i + 1, i + Len(sub)) = sub

RECURSIVE NumeralValue(_)
\* The number a run of decimal digits writes.
NumeralValue(ds) ==
  IF Len(ds) = 0 THEN 0
  ELSE 10 * NumeralValue(SubSeq(ds, 1, Len(ds) - 1)) + DigitVal(ds[Len(ds)])

\* The digit run is a numeral of an int.
ValidInt(ds) == Len(ds) > 0 /\ NumeralValue(ds) <= MaxInt

\* C11: on every input in which the Date(<digits>) pattern does not match,
\* convertTimestamp returns an error and no timestamp, and the error message
\* contains the whole input.
C11_NoMatchNamesInput ==
  (ts.done /\ ~HasWrapper(wt)) =>
    /\ ts.err # NoErr
    /\ ts.t = ZeroTime
    /\ Contains(ts.err.msg, wt)

C11_Witness ==
  /\ ts.done
  /\ wt = <<"D", "a", "t", "e", "(", "a", ")">>
  /\ ts.err.type = "parse"
  /\ ts.err.msg = FailedToParse \o wt

\* C16: convertTimestamp succeeds only on inputs that are, from the first
\* character to the last, Date(<one or more decimal digits>).
C16_SucceedsOnlyOnExactForm ==
  (ts.done /\ ts.err = NoErr) =>
    /\ WrapperAt(wt, 1, Len(wt))
    /\ Len(wt) >= 7

\* C17: when the pattern matches but the captured digit run is empty or
\* beyond the range of int, convertTimestamp returns no timestamp and an
\* error whose message ends with the captured digit run.
C17_BadDigitRunNamesDigits ==
  ts.done =>
    \A i \in 1..Len(wt), k \in 1..Len(wt) :
      (/\ WrapperAt(wt, i, k)
       /\ \A i0 \in 1..(i - 1), k0 \in 1..Len(wt) : ~WrapperAt(wt, i0, k0)
       /\ ~ValidInt(SubSeq(wt, i + 5, k - 1))) =>
        /\ ts.t = ZeroTime
        /\ ts.err.type = "parse"
        /\ ts.err.msg = InvalidTimestamp \o SubSeq(wt, i + 5, k - 1)

\* An empty digit run.
C17_Witness ==
  /\ ts.done
  /\ wt = <<"D", "a", "t", "e", "(", ")">>
  /\ ts.t = ZeroTime
  /\ ts.err.msg = InvalidTimestamp

\* A digit run beyond the range of int.
C17_WitnessRange ==
  /\ ts.done
  /\ wtN = MaxInt + 1
  /\ ts.t = ZeroTime
  /\ ts.err.msg = InvalidTimestamp \o Itoa(MaxInt + 1)

-----------------------------------------------------------------------------
(* Properties of a handshake that fails part-way *)

\* The most recent GetReadings resolved the account id and its session call
\* then failed.
SessionStepFailed ==
  /\ Len(last.calls) >= 2
  /\ last.calls[1].payload.type = "VerifyPayload"
  /\ CallErr(last.calls[1]) = NoErr
  /\ last.calls[2].payload.type = "AuthPayload"
  /\ CallErr(last.calls[2]) # NoErr

C14_AccountStepUnconditional ==
  (nCalls >= 1 /\ last.pre.sessionId = Nil) =>
    /\ Len(last.calls) >= 1
    /\ last.calls[1].payload.type = "VerifyPayload"

\* C14 amended: entered with the session id unset, GetReadings issues the
\* account-id call before the session call only if the account id is unset
\* too; with the account id already set it skips the account-id call and
\* starts with the session call.  Entered with the session id set it issues
\* no login call.
C14_AccountStepOnlyWhenUnset ==
  nCalls >= 1 =>
    /\ (last.pre.sessionId = Nil /\ last.pre.accountId = Nil) =>
         /\ CallsOfType("VerifyPayload") = {1}
         /\ CallsOfType("AuthPayload") \subseteq {2}
    /\ (last.pre.sessionId = Nil /\ last.pre.accountId # Nil) =>
         /\ CallsOfType("VerifyPayload") = {}
         /\ CallsOfType("AuthPayload") = {1}
         /\ last.calls[1].payload.accountId = Deref(last.pre.accountId)
    /\ last.pre.sessionId # Nil =>
         /\ CallsOfType("VerifyPayload") = {}
         /\ CallsOfType("AuthPayload") = {}

C14_Witness ==
  /\ nCalls = 2
  /\ last.pre.accountId = <<"acctB">>
  /\ last.pre.sessionId = Nil
  /\ PayloadTypes(last.calls) = <<"AuthPayload", "GetReadingsPayload">>
  /\ d.accountId = <<"acctB">>
  /\ d.sessionId # Nil

\* C15: whatever the vendor answers and from every state of the instance,
\* GetReadings returns readings or an error value: it never dereferences an
\* unset account id or session id.
C15_AlwaysReturns ==
  nCalls >= 1 => last.result.kind \in {"ok", "err"}

\* The index of the first record whose WT does not decode, or 0.
FirstBad(raw) ==
  IF \E i \in 1..Len(raw) : convertTimestamp(raw[i].Time).err # NoErr
  THEN CHOOSE i \in 1..Len(raw) :
         /\ convertTimestamp(raw[i].Time).err # NoErr
         /\ \A j \in 1..(i - 1) : convertTimestamp(raw[j].Time).err = NoErr
  ELSE 0

\* The most recent GetReadings got an array from its data call in which some
\* record's WT does not decode.
DataHasBadTime ==
  /\ Len(last.calls) >= 1
  /\ last.calls[Len(last.calls)].payload.type = "GetReadingsPayload"
  /\ CallErr(last.calls[Len(last.calls)]) = NoErr
  /\ FirstBad(RawValues(last.calls[Len(last.calls)].resp)) # 0

\* C18: when a record's WT fails to decode, GetReadings returns the parse
\* error of the first such record and no readings, and leaves the ids as
\* they were when the data call was issued (as they were on entry, when the
\* session id was already cached).
C18_BadTimeDiscardsAll ==
  DataHasBadTime =>
    LET dataCall == last.calls[Len(last.calls)]
        raw == RawValues(dataCall.resp)
    IN  /\ last.result.kind = "err"
        /\ last.result.readings = <<>>
        /\ last.result.err = Errorf(FailedToParse, raw[FirstBad(raw)].Time)
        /\ d.sessionId = Ptr(dataCall.payload.sessionId)
        /\ last.pre.accountId # Nil => d.accountId = last.pre.accountId
        /\ last.pre.sessionId # Nil => d = last.pre

C18_Witness ==
  /\ DataHasBadTime
  /\ nCalls = 2
  /\ last.pre.sessionId # Nil
  /\ Len(RawValues(last.calls[1].resp)) = 2
  /\ FirstBad(RawValues(last.calls[1].resp)) = 2
  /\ last.result.kind = "err"
  /\ last.result.readings = <<>>
  /\ d = last.pre

-----------------------------------------------------------------------------
(* Concurrent calls of GetReadings on one instance *)

(***************************************************************************)
(* GetReadings takes no lock, so two goroutines calling it on one instance *)
(* interleave at every read and write of d.accountId and d.sessionId.      *)
(* These are unsynchronized accesses to pointer-sized fields: a read       *)
(* yields the value before or after a concurrent write and the later of    *)
(* two writes stays, which is what taking each read and each write as one  *)
(* step gives.  A request is issued in one step and its answer is stored   *)
(* in a later one.                                                         *)
(***************************************************************************)

ConcMinutes == 1440

ConcCount == 1

\* The data answers of the concurrent calls: a failure, no records, one record.
ConcDataResponses ==
  {NetFail, JArray(<<>>),
   JArray(<<[Time |-> EncodeWT(1500), Trend |-> "Flat", Value |-> 120]>>)}

\* The value request decoded from the answer to a login call.
TokenOf(call) == request(call.endPoint, call.payload, "string", call.resp).val

InitConc ==
  /\ \E u \in Usernames, p \in Passwords : d = New(u, p)
  /\ last = NoCall
  /\ nCalls = 0
  /\ firstOk = FALSE
  /\ wt = <<>>
  /\ wtN = -1
  /\ ts = NotRun
  /\ ConcIdle

\* Line 119: if d.sessionId == nil
Enter(c) ==
  /\ pc[c] = "idle"
  /\ IF sessionUnset(d)
     THEN /\ pc' = [pc EXCEPT ![c] = "checkAccount"]
          /\ loc' = [loc EXCEPT ![c].sawUnset = TRUE]
     ELSE /\ pc' = [pc EXCEPT ![c] = "payload"]
          /\ loc' = loc
  /\ UNCHANGED <<d, nLogin, overwritten>>
  /\ UNCHANGED <<last, nCalls, firstOk, convVars>>

\* Line 120: if d.accountId == nil
CheckAccount(c) ==
  /\ pc[c] = "checkAccount"
  /\ pc' = [pc EXCEPT ![c] = IF accountUnset(d) THEN "fetchSend" ELSE "authSend"]
  /\ UNCHANGED <<d, loc, nLogin, overwritten>>
  /\ UNCHANGED <<last, nCalls, firstOk, convVars>>

\* Lines 85-87: fetchAccountId issues its request.
FetchAccountIdSend(c) ==
  /\ pc[c] = "fetchSend"
  /\ \E resp \in AccountResponses :
       loc' = [loc EXCEPT ![c].step = fetchAccountId(d, resp)]
  /\ nLogin' = nLogin + 1
  /\ pc' = [pc EXCEPT ![c] = "fetchStore"]
  /\ UNCHANGED <<d, overwritten>>
  /\ UNCHANGED <<last, nCalls, firstOk, convVars>>

\* Lines 88-92: fetchAccountId stores the account id unless the request
\* failed; GetReadings ignores the error either way (line 121).
FetchAccountIdStore(c) ==
  /\ pc[c] = "fetchStore"
  /\ IF loc[c].step.err = NoErr
     THEN /\ d' = [d EXCEPT !.accountId = loc[c].step.d.accountId]
          /\ overwritten' = IF d.accountId # Nil
                            THEN overwritten \cup {"accountId"}
                            ELSE overwritten
     ELSE UNCHANGED <<d, overwritten>>
  /\ pc' = [pc EXCEPT ![c] = "authSend"]
  /\ UNCHANGED <<loc, nLogin>>
  /\ UNCHANGED <<last, nCalls, firstOk, convVars>>

\* Lines 96-98: auth dereferences the account id (a panic ends the call when
\* it is nil) and issues its request.
AuthSend(c) ==
  /\ pc[c] = "authSend"
  /\ \E resp \in SessionResponses :
       LET s == auth(d, resp)
       IN  IF s.panic
           THEN /\ loc' = [loc EXCEPT ![c].result = Result("panic", <<>>, NoErr)]
                /\ pc' = [pc EXCEPT ![c] = "done"]
                /\ nLogin' = nLogin
           ELSE /\ loc' = [loc EXCEPT ![c].step = s]
                /\ pc' = [pc EXCEPT ![c] = "authStore"]
                /\ nLogin' = nLogin + 1
  /\ UNCHANGED <<d, overwritten>>
  /\ UNCHANGED <<last, nCalls, firstOk, convVars>>

\* Lines 99-103: auth stores the session id unless the request failed;
\* GetReadings ignores the error either way (line 123).
AuthStore(c) ==
  /\ pc[c] = "authStore"
  /\ IF loc[c].step.err = NoErr
     THEN /\ d' = [d EXCEPT !.sessionId = loc[c].step.d.sessionId]
          /\ overwritten' = IF d.sessionId # Nil
                            THEN overwritten \cup {"sessionId"}
                            ELSE overwritten
     ELSE UNCHANGED <<d, overwritten>>
  /\ pc' = [pc EXCEPT ![c] = "payload"]
  /\ UNCHANGED <<loc, nLogin>>
  /\ UNCHANGED <<last, nCalls, firstOk, convVars>>

\* Line 126: SessionId: *d.sessionId (a panic ends the call when it is nil).
Payload(c) ==
  /\ pc[c] = "payload"
  /\ IF d.sessionId = Nil
     THEN /\ loc' = [loc EXCEPT ![c].result = Result("panic", <<>>, NoErr)]
          /\ pc' = [pc EXCEPT ![c] = "done"]
     ELSE /\ loc' = [loc EXCEPT ![c].sessionId = Deref(d.sessionId)]
          /\ pc' = [pc EXCEPT ![c] = "fetch"]
  /\ UNCHANGED <<d, nLogin, overwritten>>
  /\ UNCHANGED <<last, nCalls, firstOk, convVars>>

\* Lines 130-148: the data call and the decoding of its answer.
Fetch(c) ==
  /\ pc[c] = "fetch"
  /\ \E rD \in ConcDataResponses :
       loc' = [loc EXCEPT ![c].result =
                 fetchReadings(loc[c].sessionId, ConcMinutes, ConcCount, rD).result]
  /\ pc' = [pc EXCEPT ![c] = "done"]
  /\ UNCHANGED <<d, nLogin, overwritten>>
  /\ UNCHANGED <<last, nCalls, firstOk, convVars>>

NextConc ==
  \E c \in Callers :
    \/ Enter(c)
    \/ CheckAccount(c)
    \/ FetchAccountIdSend(c)
    \/ FetchAccountIdStore(c)
    \/ AuthSend(c)
    \/ AuthStore(c)
    \/ Payload(c)
    \/ Fetch(c)

SpecConc == InitConc /\ [][NextConc]_vars

\* C12: two concurrent GetReadings calls on a fresh instance are not
\* serialized.  A call can always start, whatever the other call is doing;
\* and a login step that got a token stores it in the instance whatever the
\* other call has stored there in the meantime.  (C12_Witness is the
\* interleaving the claim names.)
C12_Unserialized ==
  /\ [](\A c \in Callers : pc[c] = "idle" => ENABLED Enter(c))
  /\ [][\A c \in Callers :
          /\ (pc[c] = "fetchStore" /\ pc'[c] = "authSend" /\ loc[c].step.err = NoErr) =>
               d'.accountId = Ptr(TokenOf(loc[c].step.calls[1]))
          /\ (pc[c] = "authStore" /\ pc'[c] = "payload" /\ loc[c].step.err = NoErr) =>
               d'.sessionId = Ptr(TokenOf(loc[c].step.calls[1]))]_vars

\* Both calls found the session id unset, the handshake ran twice (four
\* login calls), each call overwrote an id the other had stored, and the two
\* data calls went out with different session ids.
C12_Witness ==
  /\ \A c \in Callers : loc[c].sawUnset /\ pc[c] = "done"
  /\ nLogin > 2
  /\ overwritten = {"accountId", "sessionId"}
  /\ loc[1].sessionId # loc[2].sessionId
  /\ loc[1].result.kind = "ok"
  /\ loc[2].result.kind = "ok"

====
